---- MODULE Spec2Model ----
(***************************************************************************)
(* ProductService (app/servises/products.py): five operations over the     *)
(* products table, each one parameterized statement sent through           *)
(* self.conn, its result mapped to a Product or to a typed exception.      *)
(*                                                                         *)
(* Text values (name, keyword, ILIKE pattern) are sequences of one-        *)
(* character strings.  A Python value that may be None is a sequence of    *)
(* length at most one: None is <<>>, a present value v is <<v>>.           *)
(***************************************************************************)
EXTENDS Integers, Sequences, FiniteSets

\* ------------------------------------------------------------------ bounds
\* The product_id sequence is capped: no insert is issued past MaxId.
MaxId == 3
\* list is called with limit None or 0..MaxLimit.
MaxLimit == 2

None == <<>>
Some(v) == <<v>>

Names == { <<"a">>, <<"A", "b">>, <<"_">> }
Categories == { None, Some("tools") }
Prices == { 5, 10 }
Ids == 1..MaxId
Keywords == { <<>>, <<"a">>, <<"B">>, <<"c">>, <<"_">>, <<"%">> }
ListCategories == { None, Some(""), Some("tools"), Some("toys") }
Limits == { None } \cup { Some(n) : n \in 0..MaxLimit }
Callers == { "c1", "c2" }
\* Arguments of the calls issued concurrently.
ConcCategories == { None }
ConcPrices == { 5 }

VARIABLES
    table,      \* rows of the products table
    seq,        \* last value handed out by the product_id sequence
    last,       \* the call the single caller made and the response on its
                \* way back, or op "none" between calls
    snapshot,   \* product_id -> last successful create/update of that id
    deleted,    \* product_ids a successful delete has removed
    inflight,   \* caller -> the call awaiting self.conn, or None
    res,        \* caller -> its last completed call and what it got, or None
    overlap     \* pairs of callers whose latest calls overlapped in time

vars == <<table, seq, last, snapshot, deleted, inflight, res, overlap>>

\* ------------------------------------------------------- python truthiness
\* `if category:` is false for None and for the empty string.
TruthyStr(c) == c # None /\ c[1] # ""
\* `if limit:` is false for None and for 0.
TruthyInt(l) == l # None /\ l[1] # 0

\* ------------------------------------------------------------ the storage
\* UNIQUE(name): an insert of a name some row holds is rejected.
InsertViolatesUnique(t, name) == \E r \in t : r.name = name
\* UNIQUE(name): a row may not take the name another row holds.
UpdateViolatesUnique(t, product_id, name) ==
    \E r \in t : r.name = name /\ r.product_id # product_id
\* product_id is generated: the next value of the sequence.
nextval(s) == s + 1

\* Lower-casing over the model's alphabet.
Lower(ch) == CASE ch = "A" -> "a" [] ch = "B" -> "b" [] OTHER -> ch

RECURSIVE Like(_, _)
\* s LIKE p, compared case-insensitively: % is any run of characters, _ is
\* any one character, every other character stands for itself.
Like(s, p) ==
    IF p = <<>> THEN s = <<>>
    ELSE IF Head(p) = "%"
         THEN Like(s, Tail(p)) \/ (s # <<>> /\ Like(Tail(s), p))
    ELSE IF s = <<>> THEN FALSE
    ELSE /\ (Head(p) = "_" \/ Lower(Head(s)) = Lower(Head(p)))
         /\ Like(Tail(s), Tail(p))

ILike(s, p) == Like(s, p)

RECURSIVE OrderByProductId(_)
OrderByProductId(rows) ==
    IF rows = {} THEN <<>>
    ELSE LET m == CHOOSE r \in rows : \A q \in rows : r.product_id <= q.product_id
         IN  <<m>> \o OrderByProductId(rows \ {m})

\* ---------------------------------------------------------------- mapping
get_product_object(stored_data) ==
    [ product_id |-> stored_data.product_id,
      name       |-> stored_data.name,
      category   |-> stored_data.category,
      price      |-> stored_data.price ]

Product(p) == [kind |-> "Product", value |-> p]
ProductExistsException(name) == [kind |-> "ProductExistsException", name |-> name]
ProductNotFoundException(product_id) ==
    [kind |-> "ProductNotFoundException", product_id |-> product_id]
ProductNotCreatedException == [kind |-> "ProductNotCreatedException"]
ProductsListNotFoundException == [kind |-> "ProductsListNotFoundException"]

\* ----------------------------------------------------------------- create
\* INSERT INTO products(name, category, price) VALUES ($1, $2, $3) RETURNING *
InsertReturning(t, s, name, category, price) ==
    LET row == [ product_id |-> nextval(s), name |-> name,
                 category |-> category, price |-> price ]
    IN  IF InsertViolatesUnique(t, name)
        THEN [raised |-> "UniqueViolationError", row |-> None,
              table |-> t, seq |-> nextval(s)]
        ELSE [raised |-> "", row |-> Some(row),
              table |-> t \cup {row}, seq |-> nextval(s)]

\* create without its try/except: the storage error reaches the caller.
create_NoExcept(t, s, name, category, price) ==
    LET r == InsertReturning(t, s, name, category, price)
    IN  IF r.raised = "UniqueViolationError"
        THEN [ret |-> [kind |-> "UniqueViolationError"], table |-> r.table, seq |-> r.seq]
        ELSE IF r.row = None
        THEN [ret |-> ProductNotCreatedException, table |-> r.table, seq |-> r.seq]
        ELSE [ret |-> Product(get_product_object(r.row[1])),
              table |-> r.table, seq |-> r.seq]

\* create whose except clause reports every failure as ProductNotCreated.
create_WrongException(t, s, name, category, price) ==
    LET r == InsertReturning(t, s, name, category, price)
    IN  IF r.raised = "UniqueViolationError" \/ r.row = None
        THEN [ret |-> ProductNotCreatedException, table |-> r.table, seq |-> r.seq]
        ELSE [ret |-> Product(get_product_object(r.row[1])),
              table |-> r.table, seq |-> r.seq]

create(t, s, name, category, price) ==
    LET r == InsertReturning(t, s, name, category, price)
    IN  IF r.raised = "UniqueViolationError"
        THEN [ret |-> ProductExistsException(name), table |-> r.table, seq |-> r.seq]
        ELSE IF r.row = None
        THEN [ret |-> ProductNotCreatedException, table |-> r.table, seq |-> r.seq]
        ELSE [ret |-> Product(get_product_object(r.row[1])),
              table |-> r.table, seq |-> r.seq]

\* -------------------------------------------------------------------- get
\* SELECT product_id, name, category, price FROM products WHERE product_id = $1
SelectById(t, product_id) ==
    LET hit == { r \in t : r.product_id = product_id }
    IN  IF hit = {} THEN None ELSE Some(CHOOSE r \in hit : TRUE)

\* get whose SELECT has lost its WHERE clause: fetchrow gives some stored row.
get_NoWhere(t, s, product_id) ==
    LET stored_data == IF t = {} THEN None ELSE Some(CHOOSE r \in t : TRUE)
    IN  IF stored_data = None
        THEN [ret |-> ProductNotFoundException(product_id), table |-> t, seq |-> s]
        ELSE [ret |-> Product(get_product_object(stored_data[1])),
              table |-> t, seq |-> s]

get(t, s, product_id) ==
    LET stored_data == SelectById(t, product_id)
    IN  IF stored_data = None
        THEN [ret |-> ProductNotFoundException(product_id), table |-> t, seq |-> s]
        ELSE [ret |-> Product(get_product_object(stored_data[1])),
              table |-> t, seq |-> s]

\* ------------------------------------------------------------------- list
\* The statement list assembles is a sequence of clauses, each with the
\* number of its positional placeholder (0: the clause has none), and
\* params is the argument list passed with it to self.conn.fetch.
BuildQuery_LimitIsDollar2(keyword, category, limit) ==
    LET params0 == << <<"%">> \o keyword \o <<"%">> >>
        query0  == << [clause |-> "WHERE name ILIKE", ph |-> 1] >>
        query1  == IF TruthyStr(category)
                   THEN query0 \o << [clause |-> "AND category =", ph |-> 2] >>
                   ELSE query0
        params1 == IF TruthyStr(category)
                   THEN Append(params0, category[1])
                   ELSE params0
        query2  == query1 \o << [clause |-> "ORDER BY product_id", ph |-> 0] >>
        query3  == IF TruthyInt(limit)
                   THEN query2 \o << [clause |-> "LIMIT", ph |-> 2] >>
                   ELSE query2
        params3 == IF TruthyInt(limit)
                   THEN Append(params1, limit[1])
                   ELSE params1
    IN  [query |-> query3, params |-> params3]

BuildQuery(keyword, category, limit) ==
    LET params0 == << <<"%">> \o keyword \o <<"%">> >>
        query0  == << [clause |-> "WHERE name ILIKE", ph |-> 1] >>
        query1  == IF TruthyStr(category)
                   THEN query0 \o << [clause |-> "AND category =", ph |-> 2] >>
                   ELSE query0
        params1 == IF TruthyStr(category)
                   THEN Append(params0, category[1])
                   ELSE params0
        query2  == query1 \o << [clause |-> "ORDER BY product_id", ph |-> 0] >>
        query3  == IF TruthyInt(limit)
                   THEN query2 \o << [clause |-> "LIMIT", ph |-> Len(params1) + 1] >>
                   ELSE query2
        params3 == IF TruthyInt(limit)
                   THEN Append(params1, limit[1])
                   ELSE params1
    IN  [query |-> query3, params |-> params3]

\* The clause sequences the SELECT grammar accepts.
Clauses(query) == [i \in 1..Len(query) |-> query[i].clause]
ValidShapes ==
    { <<"WHERE name ILIKE", "ORDER BY product_id">>,
      <<"WHERE name ILIKE", "AND category =", "ORDER BY product_id">>,
      <<"WHERE name ILIKE", "ORDER BY product_id", "LIMIT">>,
      <<"WHERE name ILIKE", "AND category =", "ORDER BY product_id", "LIMIT">> }
PlaceholdersOf(query) == { query[i].ph : i \in 1..Len(query) } \ {0}

\* self.conn.fetch(query, *params): the statement is rejected unless its
\* clauses parse and its placeholders are exactly $1..$n for the n arguments
\* passed; otherwise each clause reads the argument its placeholder names.
Fetch(t, query, params) ==
    IF Clauses(query) \notin ValidShapes
    THEN [raised |-> "PostgresSyntaxError", rows |-> <<>>]
    ELSE IF PlaceholdersOf(query) # 1..Len(params)
    THEN [raised |-> "InterfaceError", rows |-> <<>>]
    ELSE
    LET Arg(i) == params[query[i].ph]
        Where(r) ==
            \A i \in 1..Len(query) :
                /\ query[i].clause = "WHERE name ILIKE" => ILike(r.name, Arg(i))
                /\ query[i].clause = "AND category =" => r.category = Some(Arg(i))
        ordered == OrderByProductId({ r \in t : Where(r) })
        lim == { i \in 1..Len(query) : query[i].clause = "LIMIT" }
        n == IF lim = {} THEN Len(ordered)
             ELSE LET k == Arg(CHOOSE i \in lim : TRUE)
                  IN  IF k < Len(ordered) THEN k ELSE Len(ordered)
    IN  [raised |-> "", rows |-> SubSeq(ordered, 1, n)]

\* list without `if not stored_data: raise`.
list_NoEmptyCheck(t, s, keyword, category, limit) ==
    LET q == BuildQuery(keyword, category, limit)
        f == Fetch(t, q.query, q.params)
        stored_data == f.rows
    IN  IF f.raised # ""
        THEN [ret |-> [kind |-> f.raised], table |-> t, seq |-> s]
        ELSE [ret |-> [kind |-> "List",
                       value |-> [i \in 1..Len(stored_data) |->
                                     get_product_object(stored_data[i])]],
              table |-> t, seq |-> s]

list(t, s, keyword, category, limit) ==
    LET q == BuildQuery(keyword, category, limit)
        f == Fetch(t, q.query, q.params)
        stored_data == f.rows
    IN  IF f.raised # ""
        THEN [ret |-> [kind |-> f.raised], table |-> t, seq |-> s]
        ELSE IF stored_data = <<>>
        THEN [ret |-> ProductsListNotFoundException, table |-> t, seq |-> s]
        ELSE [ret |-> [kind |-> "List",
                       value |-> [i \in 1..Len(stored_data) |->
                                     get_product_object(stored_data[i])]],
              table |-> t, seq |-> s]

\* ----------------------------------------------------------------- update
\* UPDATE products SET name = $1, category = $2, price = $3
\* WHERE product_id = $4 RETURNING *
UpdateReturning(t, product_id, name, category, price) ==
    LET hit == { r \in t : r.product_id = product_id }
        row == [ product_id |-> product_id, name |-> name,
                 category |-> category, price |-> price ]
    IN  IF hit = {}
        THEN [raised |-> "", row |-> None, table |-> t]
        ELSE IF UpdateViolatesUnique(t, product_id, name)
        THEN [raised |-> "UniqueViolationError", row |-> None, table |-> t]
        ELSE [raised |-> "", row |-> Some(row), table |-> (t \ hit) \cup {row}]

\* update without its try/except: the storage error reaches the caller.
update_NoExcept(t, s, product_id, name, category, price) ==
    LET r == UpdateReturning(t, product_id, name, category, price)
    IN  IF r.raised = "UniqueViolationError"
        THEN [ret |-> [kind |-> "UniqueViolationError"], table |-> r.table, seq |-> s]
        ELSE IF r.row = None
        THEN [ret |-> ProductNotFoundException(product_id), table |-> r.table, seq |-> s]
        ELSE [ret |-> Product(get_product_object(r.row[1])),
              table |-> r.table, seq |-> s]

\* update without `if not stored_data: raise`: mapping None fails.
update_NoFoundCheck(t, s, product_id, name, category, price) ==
    LET r == UpdateReturning(t, product_id, name, category, price)
    IN  IF r.raised = "UniqueViolationError"
        THEN [ret |-> ProductExistsException(name), table |-> r.table, seq |-> s]
        ELSE IF r.row = None
        THEN [ret |-> [kind |-> "AttributeError"], table |-> r.table, seq |-> s]
        ELSE [ret |-> Product(get_product_object(r.row[1])),
              table |-> r.table, seq |-> s]

update(t, s, product_id, name, category, price) ==
    LET r == UpdateReturning(t, product_id, name, category, price)
    IN  IF r.raised = "UniqueViolationError"
        THEN [ret |-> ProductExistsException(name), table |-> r.table, seq |-> s]
        ELSE IF r.row = None
        THEN [ret |-> ProductNotFoundException(product_id), table |-> r.table, seq |-> s]
        ELSE [ret |-> Product(get_product_object(r.row[1])),
              table |-> r.table, seq |-> s]

\* ----------------------------------------------------------------- delete
\* DELETE FROM products WHERE product_id = $1 RETURNING *
\* A SELECT sent where the DELETE should be: the row is returned and stays.
DeleteReturning_Select(t, product_id) ==
    LET hit == { r \in t : r.product_id = product_id }
    IN  IF hit = {}
        THEN [row |-> None, table |-> t]
        ELSE [row |-> Some(CHOOSE r \in hit : TRUE), table |-> t]

DeleteReturning(t, product_id) ==
    LET hit == { r \in t : r.product_id = product_id }
    IN  IF hit = {}
        THEN [row |-> None, table |-> t]
        ELSE [row |-> Some(CHOOSE r \in hit : TRUE), table |-> t \ hit]

delete(t, s, product_id) ==
    LET r == DeleteReturning(t, product_id)
        stored_data == r.row
    IN  IF stored_data = None
        THEN [ret |-> ProductNotFoundException(product_id), table |-> r.table, seq |-> s]
        ELSE [ret |-> Product(get_product_object(stored_data[1])),
              table |-> r.table, seq |-> s]

\* ------------------------------------------------------------------ state
Init ==
    /\ table = {}
    /\ seq = 0
    /\ last = [op |-> "none"]
    /\ snapshot = <<>>
    /\ deleted = {}
    /\ inflight = [c \in Callers |-> None]
    /\ res = [c \in Callers |-> None]
    /\ overlap = {}

\* snapshot with product p, returned for the inputs given, as the entry of its id.
Remember(p, name, category, price) ==
    [i \in DOMAIN snapshot \cup {p.product_id} |->
        IF i = p.product_id
        THEN [ret |-> p, name |-> name, category |-> category, price |-> price]
        ELSE snapshot[i]]

\* ------------------------------------------- one caller, one call at a time
DoCreate(name, category, price) ==
    /\ last.op = "none"
    /\ seq < MaxId
    /\ LET o == create(table, seq, name, category, price)
       IN  /\ table' = o.table
           /\ seq' = o.seq
           /\ last' = [op |-> "create", name |-> name, category |-> category,
                       price |-> price, ret |-> o.ret]
           /\ snapshot' = IF o.ret.kind = "Product"
                          THEN Remember(o.ret.value, name, category, price)
                          ELSE snapshot
    /\ UNCHANGED <<deleted, inflight, res, overlap>>

DoGet(product_id) ==
   /\ last.op = "none"
    /\ LET o == get(table, seq, product_id)
       IN  /\ table' = o.table
           /\ seq' = o.seq
           /\ last' = [op |-> "get", product_id |-> product_id, ret |-> o.ret]
    /\ UNCHANGED <<snapshot, deleted, inflight, res, overlap>>

DoList(keyword, category, limit) ==
   /\ last.op = "none"
    /\ LET o == list(table, seq, keyword, category, limit)
           q == BuildQuery(keyword, category, limit)
       IN  /\ table' = o.table
           /\ seq' = o.seq
           /\ last' = [op |-> "list", keyword |-> keyword, category |-> category,
                       limit |-> limit, query |-> q.query, params |-> q.params,
                       ret |-> o.ret]
    /\ UNCHANGED <<snapshot, deleted, inflight, res, overlap>>

DoUpdate(product_id, name, category, price) ==
   /\ last.op = "none"
    /\ LET o == update(table, seq, product_id, name, category, price)
       IN  /\ table' = o.table
           /\ seq' = o.seq
           /\ last' = [op |-> "update", product_id |-> product_id, name |-> name,
                       category |-> category, price |-> price, ret |-> o.ret]
           /\ snapshot' = IF o.ret.kind = "Product"
                          THEN Remember(o.ret.value, name, category, price)
                          ELSE snapshot
    /\ UNCHANGED <<deleted, inflight, res, overlap>>

DoDelete(product_id) ==
   /\ last.op = "none"
    /\ LET o == delete(table, seq, product_id)
       IN  /\ table' = o.table
           /\ seq' = o.seq
           /\ last' = [op |-> "delete", product_id |-> product_id, ret |-> o.ret]
           /\ snapshot' = IF o.ret.kind = "Product"
                          THEN [i \in DOMAIN snapshot \ {product_id} |-> snapshot[i]]
                          ELSE snapshot
           /\ deleted' = IF o.ret.kind = "Product"
                         THEN deleted \cup {product_id}
                         ELSE deleted
    /\ UNCHANGED <<inflight, res, overlap>>

\* The caller takes the response; the service keeps nothing between calls.
Respond ==
    /\ last.op # "none"
    /\ last' = [op |-> "none"]
    /\ UNCHANGED <<table, seq, snapshot, deleted, inflight, res, overlap>>

Next ==
    \/ Respond
    \/ \E n \in Names, c \in Categories, p \in Prices : DoCreate(n, c, p)
    \/ \E i \in Ids : DoGet(i)
    \/ \E k \in Keywords, c \in ListCategories, l \in Limits : DoList(k, c, l)
    \/ \E i \in Ids, n \in Names, c \in Categories, p \in Prices : DoUpdate(i, n, c, p)
    \/ \E i \in Ids : DoDelete(i)

Spec == Init /\ [][Next]_vars

\* ------------------------------------------------- several callers at once
\* A caller issues a call: the handler runs up to its await on self.conn.
Invoke(c, q) ==
    /\ inflight[c] = None
    /\ inflight' = [inflight EXCEPT ![c] = Some(q)]
    /\ res' = [res EXCEPT ![c] = None]
    /\ overlap' = { pr \in overlap : c \notin pr }
                  \cup { {c, d} : d \in { e \in Callers \ {c} : inflight[e] # None } }
    /\ UNCHANGED <<table, seq, last, snapshot, deleted>>

\* The statement of c's call executes and the handler maps its result.
Finish(c, o) ==
    /\ table' = o.table
    /\ seq' = o.seq
    /\ res' = [res EXCEPT ![c] = Some([call |-> inflight[c][1], ret |-> o.ret])]
    /\ inflight' = [inflight EXCEPT ![c] = None]
    /\ UNCHANGED <<last, snapshot, deleted, overlap>>

CompleteCreate(c) ==
    /\ inflight[c] # None
    /\ inflight[c][1].op = "create"
    /\ seq < MaxId
    /\ LET q == inflight[c][1]
       IN  Finish(c, create(table, seq, q.name, q.category, q.price))

CompleteUpdate(c) ==
    /\ inflight[c] # None
    /\ inflight[c][1].op = "update"
    /\ LET q == inflight[c][1]
       IN  Finish(c, update(table, seq, q.product_id, q.name, q.category, q.price))

CompleteDelete(c) ==
    /\ inflight[c] # None
    /\ inflight[c][1].op = "delete"
    /\ LET q == inflight[c][1]
       IN  Finish(c, delete(table, seq, q.product_id))

Calls ==
    { [op |-> "create", name |-> n, category |-> c, price |-> p] :
        n \in Names, c \in ConcCategories, p \in ConcPrices }
    \cup { [op |-> "update", product_id |-> i, name |-> n, category |-> c, price |-> p] :
        i \in Ids, n \in Names, c \in ConcCategories, p \in ConcPrices }
    \cup { [op |-> "delete", product_id |-> i] : i \in Ids }

NextConc ==
    \/ \E c \in Callers, q \in Calls : Invoke(c, q)
    \/ \E c \in Callers : CompleteCreate(c)
    \/ \E c \in Callers : CompleteUpdate(c)
    \/ \E c \in Callers : CompleteDelete(c)

SpecConc == Init /\ [][NextConc]_vars

\* ================================================================ claims
RowIds(t) == { r.product_id : r \in t }
\* keyword occurs in name as a substring, letters compared case-insensitively.
Contains(name, keyword) ==
    \E i \in 0..(Len(name) - Len(keyword)) :
        \A j \in 1..Len(keyword) : Lower(name[i + j]) = Lower(keyword[j])
\* The filter the statement applies: the wrapped keyword as an ILIKE pattern,
\* and the category when list passes one.
QueryMatches(r, keyword, category) ==
    /\ ILike(r.name, <<"%">> \o keyword \o <<"%">>)
    /\ TruthyStr(category) => r.category = category
Ascending(sq) == \A i, j \in 1..Len(sq) : i < j => sq[i].product_id < sq[j].product_id
Elements(sq) == { sq[i] : i \in 1..Len(sq) }

\* C1: a create whose name some stored row already has fails with
\* AlreadyExists(name), and the table after the call is the table before it.
C1_CreateDuplicateRejected ==
    [][ (last'.op = "create" /\ \E r \in table : r.name = last'.name)
        => /\ last'.ret = ProductExistsException(last'.name)
           /\ table' = table ]_vars

C1_Witness ==
    /\ last.op = "create"
    /\ last.ret.kind = "ProductExistsException"
    /\ \E r \in table : r.name = last.name

\* C2: an update of an existing product_id to a name a different row holds
\* fails with AlreadyExists(name) and every row keeps its fields.
C2_UpdateDuplicateRejected ==
    [][ ( /\ last'.op = "update"
          /\ last'.product_id \in RowIds(table)
          /\ \E r \in table : r.name = last'.name /\ r.product_id # last'.product_id )
        => /\ last'.ret = ProductExistsException(last'.name)
           /\ table' = table ]_vars

C2_Witness ==
    /\ last.op = "update"
    /\ last.ret.kind = "ProductExistsException"
    /\ last.product_id \in RowIds(table)
    /\ \E r \in table : r.name = last.name /\ r.product_id # last.product_id

\* C3: get of a product_id that was created and not deleted returns the
\* Product the latest successful create or update of that id returned; that
\* Product has the id asked for, a positive integer, and the name, category
\* and price given to that call; and get changes no row.
C3_ReadYourWrites ==
    [][ last'.op = "get"
        => /\ table' = table
           /\ last'.product_id \in DOMAIN snapshot
              => LET sn == snapshot[last'.product_id]
                 IN  /\ last'.ret = Product(sn.ret)
                     /\ sn.ret.product_id = last'.product_id
                     /\ sn.ret.product_id \in Nat \ {0}
                     /\ sn.ret.name = sn.name
                     /\ sn.ret.category = sn.category
                     /\ sn.ret.price = sn.price ]_vars

C3_Witness ==
    /\ last.op = "get"
    /\ last.product_id \in DOMAIN snapshot
    /\ last.ret.kind = "Product"

\* C4: delete of an existing product_id returns the row as stored before the
\* call and removes that row and no other; every later get, update or delete
\* of a deleted product_id fails with NotFound(product_id).
C4_DeleteRemovesForGood ==
    [][ /\ (last'.op = "delete" /\ last'.product_id \in RowIds(table))
           => \E r \in table :
                 /\ r.product_id = last'.product_id
                 /\ last'.ret = Product(r)
                 /\ table' = table \ {r}
        /\ (last'.op \in {"get", "update", "delete"} /\ last'.product_id \in deleted)
           => last'.ret = ProductNotFoundException(last'.product_id) ]_vars

C4_Witness ==
    /\ last.op \in {"get", "update", "delete"}
    /\ last.product_id \in deleted
    /\ last.ret.kind = "ProductNotFoundException"
    /\ table # {}

\* C5: get, update and delete of a product_id no stored row has fail with
\* NotFound(product_id) and leave the table as it was, whatever name,
\* category and price update is given.
C5_MissingIdNotFound ==
    [][ ( /\ last'.op \in {"get", "update", "delete"}
          /\ last'.product_id \notin RowIds(table) )
        => /\ last'.ret = ProductNotFoundException(last'.product_id)
           /\ table' = table ]_vars

C5_Witness ==
    /\ last.op = "update"
    /\ last.ret.kind = "ProductNotFoundException"
    /\ \E r \in table : r.name = last.name

\* C6: with limit None and at least one stored row whose name contains the
\* keyword (case-insensitively) and whose category equals the one supplied,
\* list returns exactly those rows, each once, in ascending product_id order.
C6_ListIsSubstringMatch ==
    (last.op = "list" /\ last.limit = None)
    => LET matching == { r \in table :
                           /\ Contains(r.name, last.keyword)
                           /\ TruthyStr(last.category) => r.category = last.category }
       IN  matching # {}
           => /\ last.ret.kind = "List"
              /\ Elements(last.ret.value) = matching
              /\ Len(last.ret.value) = Cardinality(matching)
              /\ Ascending(last.ret.value)

\* C7: when list is given an integer limit >= 0 and returns, the sequence has
\* at most limit rows and is the first limit rows, in ascending product_id
\* order, of the rows the keyword and category filters keep.
C7_LimitCapsResult ==
    (last.op = "list" /\ last.limit # None /\ last.ret.kind = "List")
    => LET matching == { r \in table : QueryMatches(r, last.keyword, last.category) }
           v == last.ret.value
       IN  /\ Len(v) <= last.limit[1]
           /\ Ascending(v)
           /\ Elements(v) \subseteq matching
           /\ \A r \in matching \ Elements(v) :
                 /\ Len(v) = last.limit[1]
                 /\ \A i \in 1..Len(v) : v[i].product_id < r.product_id

\* C8: list fails with ListEmpty exactly when the statement it sent yields no
\* row; a list that returns, returns a non-empty sequence; list changes no row.
C8_ListEmptyIffNoRows ==
    [][ last'.op = "list"
        => /\ table' = table
           /\ last'.ret.kind \in {"List", "ProductsListNotFoundException"}
           /\ last'.ret = ProductsListNotFoundException
              <=> Fetch(table, last'.query, last'.params).rows = <<>>
           /\ last'.ret = ProductsListNotFoundException
              <=> ~ \E r \in table : QueryMatches(r, last'.keyword, last'.category)
           /\ last'.ret.kind = "List" => last'.ret.value # <<>> ]_vars

C8_Witness ==
    /\ last.op = "list"
    /\ last.ret = ProductsListNotFoundException
    /\ table # {}

\* C10: the statement list sends has one of the four clause orders WHERE,
\* [AND category], ORDER BY, [LIMIT]; its placeholders are $1..$n for the n
\* arguments passed; each placeholder is one more than the number of
\* arguments appended before its clause; $1 is bound to %keyword%, the
\* category clause to the category and the LIMIT clause to the limit.  The
\* category clause is there exactly when a non-empty category is given; the
\* LIMIT clause is there when limit >= 1 and not when limit is None.
C10_PlaceholdersMatchParams ==
    last.op = "list"
    => LET q == last.query
           p == last.params
           hasCat == \E i \in 1..Len(q) : q[i].clause = "AND category ="
           hasLim == \E i \in 1..Len(q) : q[i].clause = "LIMIT"
           Before(i) == Cardinality({ j \in 1..(i - 1) : q[j].ph # 0 })
       IN  /\ Clauses(q) \in ValidShapes
           /\ PlaceholdersOf(q) = 1..Len(p)
           /\ Len(p) = Cardinality({ i \in 1..Len(q) : q[i].ph # 0 })
           /\ \A i \in 1..Len(q) :
                 /\ q[i].clause = "ORDER BY product_id" <=> q[i].ph = 0
                 /\ q[i].ph # 0 => q[i].ph = Before(i) + 1
                 /\ q[i].clause = "WHERE name ILIKE"
                    => p[q[i].ph] = <<"%">> \o last.keyword \o <<"%">>
                 /\ q[i].clause = "AND category =" => p[q[i].ph] = last.category[1]
                 /\ q[i].clause = "LIMIT" => p[q[i].ph] = last.limit[1]
           /\ hasCat <=> (last.category # None /\ last.category # Some(""))
           /\ last.limit = None => ~hasLim
           /\ (last.limit # None /\ last.limit[1] >= 1) => hasLim

C10_Witness ==
    /\ last.op = "list"
    /\ Len(last.params) = 3
    /\ Clauses(last.query) =
          <<"WHERE name ILIKE", "AND category =", "ORDER BY product_id", "LIMIT">>
    /\ last.ret.kind = "List"

\* ---------------------------------------------------- claims, concurrent
UniqueRows(t) ==
    \A r1, r2 \in t :
        (r1.name = r2.name \/ r1.product_id = r2.product_id) => r1 = r2
\* The latest calls of c and d overlapped, both are complete, one is a create
\* and the other a create or an update, and both were given the same name.
SameNameRace(c, d) ==
    /\ c # d
    /\ {c, d} \in overlap
    /\ res[c] # None
    /\ res[d] # None
    /\ res[c][1].call.op = "create"
    /\ res[d][1].call.op \in {"create", "update"}
    /\ res[c][1].call.name = res[d][1].call.name

\* C9 as stated: no two rows share a name or a product_id, and of two
\* concurrent calls, a create and a create or update, given the same name,
\* at most one returns a Product.
C9_AtMostOneSucceeds ==
    /\ UniqueRows(table)
    /\ \A c, d \in Callers :
          SameNameRace(c, d)
          => ~ (res[c][1].ret.kind = "Product" /\ res[d][1].ret.kind = "Product")

\* C9 amended: after every step no two rows share a name or a product_id; a
\* step changes at most one row and leaves that row's product_id as it was;
\* and a create, or an update of an existing row, that executes while a
\* different row holds its name fails with AlreadyExists and changes no row.
C9_UniqueUnderInterleaving ==
    [][ /\ UniqueRows(table')
        /\ Cardinality(table \ table') <= 1
        /\ Cardinality(table' \ table) <= 1
        /\ RowIds(table \ table') \subseteq RowIds(table') \/ table' \subseteq table
        /\ \A c \in Callers :
              (inflight[c] # None /\ inflight'[c] = None)
              => LET q == inflight[c][1]
                     taken == /\ q.op = "create"
                              /\ \E r \in table : r.name = q.name
                     clash == /\ q.op = "update"
                              /\ q.product_id \in RowIds(table)
                              /\ \E r \in table :
                                    r.name = q.name /\ r.product_id # q.product_id
                 IN  (taken \/ clash)
                     => /\ res'[c] = Some([call |-> q,
                                           ret |-> ProductExistsException(q.name)])
                        /\ table' = table ]_vars

C9_Witness ==
    \E c, d \in Callers :
        /\ SameNameRace(c, d)
        /\ res[d][1].call.op = "create"
        /\ res[c][1].ret.kind = "Product"
        /\ res[d][1].ret.kind = "ProductExistsException"
        /\ res[c][1].ret.value \in table
====
